---- MODULE Spec2Model ----
(***************************************************************************)
(* Transfer functions of the ACES RGB Log and ACES RGB Proxy colourspaces  *)
(* (color/colorspaces/aces_rgb.py).                                        *)
(*                                                                         *)
(* The functions are pure functions over Python floats.  The model is the  *)
(* exact (algebraic) semantics of that arithmetic: a number is a finite    *)
(* sum of terms (n/d) * 2^(e/ExpDen), kept in a canonical form, so that    *)
(* log2 and 2^x are computed exactly wherever their result stays in that   *)
(* form.  Floating-point rounding is not modelled.                         *)
(***************************************************************************)
EXTENDS Integers, FiniteSets, Bags

\* Exponents of two are multiples of 1/ExpDen.
ExpDen == 5
\* Arguments range over 2^-MinStop .. 2^MaxStop.
MinStop == 16
MaxStop == 17

(***************************************************************************)
(* Exact arithmetic.  A number is a set of terms [n, d, e] standing for    *)
(* the sum of (n/d) * 2^(e/ExpDen); n is odd and non-zero, d is odd and    *)
(* positive, gcd(n, d) = 1, and no two terms have exponents that agree     *)
(* modulo ExpDen.  Equal numbers are equal sets.                           *)
(***************************************************************************)
Abs(i) == IF i < 0 THEN -i ELSE i

RECURSIVE GCD(_, _)
GCD(a, b) == IF b = 0 THEN a ELSE GCD(b, a % b)

RECURSIVE FloorLog2(_)
FloorLog2(i) == IF i < 2 THEN 0 ELSE 1 + FloorLog2(i \div 2)

CeilLog2(i) == IF i = 2^FloorLog2(i) THEN FloorLog2(i) ELSE FloorLog2(i) + 1

SetMax(S) == CHOOSE m \in S : \A k \in S : k <= m

SetMin(S) == CHOOSE m \in S : \A k \in S : m <= k

RECURSIVE Term(_, _, _)
Term(n, d, e) ==
    IF n % 2 = 0 THEN Term(n \div 2, d, e + ExpDen)
    ELSE IF d % 2 = 0 THEN Term(n, d \div 2, e - ExpDen)
    ELSE LET g == GCD(Abs(n), d)
         IN  [n |-> n \div g, d |-> d \div g, e |-> e]

\* The float n/d.
Rat(n, d) == IF n = 0 THEN {} ELSE {Term(n, d, 0)}

\* The float 2^(e/ExpDen).
Mono(e) == {[n |-> 1, d |-> 1, e |-> e]}

AddTerm(A, t) ==
    LET same == {s \in A : (s.e - t.e) % ExpDen = 0}
    IN  IF same = {} THEN A \cup {t}
        ELSE LET s  == CHOOSE s \in same : TRUE
                 e0 == IF s.e < t.e THEN s.e ELSE t.e
                 n  == s.n * t.d * 2^((s.e - e0) \div ExpDen)
                       + t.n * s.d * 2^((t.e - e0) \div ExpDen)
             IN  IF n = 0 THEN A \ {s}
                 ELSE (A \ {s}) \cup {Term(n, s.d * t.d, e0)}

\* a + b
RECURSIVE Add(_, _)
Add(A, B) ==
    IF B = {} THEN A
    ELSE LET t == CHOOSE t \in B : TRUE
         IN  Add(AddTerm(A, t), B \ {t})

Neg(A) == {[t EXCEPT !.n = -t.n] : t \in A}

\* a - b
Sub(A, B) == Add(A, Neg(B))

\* a * b
RECURSIVE Mul(_, _)
Mul(A, B) ==
    IF B = {} THEN {}
    ELSE LET t == CHOOSE t \in B : TRUE
         IN  Add({Term(s.n * t.n, s.d * t.d, s.e + t.e) : s \in A},
                 Mul(A, B \ {t}))

\* a / b, for a divisor of one term (every divisor in the source is a
\* non-zero constant)
Div(A, B) ==
    LET t == CHOOSE t \in B : TRUE
        s == IF t.n < 0 THEN -1 ELSE 1
    IN  Mul(A, {Term(s * t.d, Abs(t.n), -t.e)})

(***************************************************************************)
(* Ordering.  a < b is decided on the bags of the positive terms of each   *)
(* side of a - b < 0, after cancelling the terms the sides share: by       *)
(* power-of-two bounds of the two sums, and exactly for two commensurable  *)
(* terms.  A comparison the bounds cannot settle has no value (Decided);   *)
(* none is reachable.                                                      *)
(***************************************************************************)
PosBag(A) == SetToBag({t \in A : t.n > 0})

NegBag(A) == SetToBag({[t EXCEPT !.n = -t.n] : t \in {s \in A : s.n < 0}})

IsExact(t) == t.n = 1 /\ t.d = 1

TermLo(t) == t.e + ExpDen * (FloorLog2(t.n) - CeilLog2(t.d))

TermHi(t) == t.e + ExpDen * (CeilLog2(t.n) - FloorLog2(t.d))

BagLo(B) ==
    LET S     == BagToSet(B)
        maxlo == SetMax({TermLo(t) : t \in S})
        cntlo == SetMin({TermLo(t) : t \in S}) + ExpDen * FloorLog2(BagCardinality(B))
    IN  IF maxlo >= cntlo THEN maxlo ELSE cntlo

BagLoStrict(B) ==
    LET S     == BagToSet(B)
        maxlo == SetMax({TermLo(t) : t \in S})
        cntlo == SetMin({TermLo(t) : t \in S}) + ExpDen * FloorLog2(BagCardinality(B))
    IN  IF BagCardinality(B) = 1 THEN \E t \in S : ~IsExact(t)
        ELSE maxlo >= cntlo

BagHi(B) ==
    SetMax({TermHi(t) : t \in BagToSet(B)}) + ExpDen * CeilLog2(BagCardinality(B))

BagHiStrict(B) ==
    BagCardinality(B) = 1 /\ \E t \in BagToSet(B) : ~IsExact(t)

BagBelow(P, N) ==
    \/ BagHi(P) < BagLo(N)
    \/ BagHi(P) = BagLo(N) /\ (BagHiStrict(P) \/ BagLoStrict(N))

TermCmp(s, t) ==
    IF (s.e - t.e) % ExpDen # 0 THEN 2
    ELSE LET k   == (s.e - t.e) \div ExpDen
             lhs == s.n * t.d * (IF k > 0 THEN 2^k ELSE 1)
             rhs == t.n * s.d * (IF k < 0 THEN 2^(-k) ELSE 1)
         IN  IF lhs < rhs THEN -1 ELSE IF lhs > rhs THEN 1 ELSE 0

\* -1, 0, 1 as sum(P) <, =, > sum(N); 2 when not settled
Cmp(P, N) ==
    LET P1 == P (-) N
        N1 == N (-) P
    IN  IF P1 = EmptyBag /\ N1 = EmptyBag THEN 0
        ELSE IF N1 = EmptyBag THEN 1
        ELSE IF P1 = EmptyBag THEN -1
        ELSE IF BagBelow(P1, N1) THEN -1
        ELSE IF BagBelow(N1, P1) THEN 1
        ELSE IF BagCardinality(P1) = 1 /\ BagCardinality(N1) = 1
             THEN TermCmp(CHOOSE s \in BagToSet(P1) : TRUE,
                          CHOOSE t \in BagToSet(N1) : TRUE)
        ELSE 2

Decided(c) == CHOOSE r \in {-1, 0, 1} : r = c

\* a < b
Less(A, B) == Decided(Cmp(PosBag(A) (+) NegBag(B), NegBag(A) (+) PosBag(B))) = -1

\* a > b
Greater(A, B) == Less(B, A)

(***************************************************************************)
(* Rational numbers (one term, whole power of two), floor, log2 and 2^x.   *)
(* log2 is exact on the powers 2^(e/ExpDen) and 2^x on the rationals       *)
(* x = e/ExpDen; the calls of the model stay inside these domains.         *)
(***************************************************************************)
IsRat(A) == A = {} \/ (Cardinality(A) = 1 /\ \A t \in A : t.e % ExpDen = 0)

RatNum(A) ==
    IF A = {} THEN 0
    ELSE LET t == CHOOSE t \in A : TRUE
             k == t.e \div ExpDen
         IN  IF k >= 0 THEN t.n * 2^k ELSE t.n

RatDen(A) ==
    IF A = {} THEN 1
    ELSE LET t == CHOOSE t \in A : TRUE
             k == t.e \div ExpDen
         IN  IF k >= 0 THEN t.d ELSE t.d * 2^(-k)

\* math.floor(a)
Floor(A) == Rat(RatNum(A) \div RatDen(A), 1)

Log2Defined(A) == Cardinality(A) = 1 /\ \A t \in A : IsExact(t)

\* math.log10(a) / math.log10(2)
Log2(A) == LET t == CHOOSE t \in A : TRUE IN Rat(t.e, ExpDen)

\* The exponents e of the powers 2^(e/ExpDen) of the model.
Exps == (-MinStop * ExpDen)..(MaxStop * ExpDen)

Pow2Defined(A) ==
    /\ IsRat(A)
    /\ (RatNum(A) * ExpDen) % RatDen(A) = 0
    /\ (RatNum(A) * ExpDen) \div RatDen(A) \in Exps

\* math.pow(2., a)
Pow2(A) == Mono((RatNum(A) * ExpDen) \div RatDen(A))

\* min(a, b) and max(a, b): the first argument wins a tie
Min(A, B) == IF Less(B, A) THEN B ELSE A

Max(A, B) == IF Greater(B, A) THEN B ELSE A

(***************************************************************************)
(* Module constants.                                                       *)
(***************************************************************************)
LogConstantsUnityOffByOne ==
    [log_unity    |-> Rat(32767, 1),
     log_xperstop |-> Rat(2048, 1),
     denorm_trans |-> Pow2(Rat(-15, 1)),
     denorm_fake0 |-> Pow2(Rat(-16, 1))]

ACES_RGB_LOG_CONSTANTS ==
    [log_unity    |-> Rat(32768, 1),
     log_xperstop |-> Rat(2048, 1),
     denorm_trans |-> Pow2(Rat(-15, 1)),
     denorm_fake0 |-> Pow2(Rat(-16, 1))]

ACES_RGB_PROXY_10_CONSTANTS ==
    [CV_min         |-> Rat(0, 1),
     CV_max         |-> Rat(1023, 1),
     steps_per_stop |-> Rat(50, 1),
     mid_CV_offset  |-> Rat(425, 1),
     mid_log_offset |-> Rat(-5, 2)]

ACES_RGB_PROXY_12_CONSTANTS ==
    [CV_min         |-> Rat(0, 1),
     CV_max         |-> Rat(4095, 1),
     steps_per_stop |-> Rat(200, 1),
     mid_CV_offset  |-> Rat(1700, 1),
     mid_log_offset |-> Rat(-5, 2)]

ACES_RGB_PROXY_CONSTANTS ==
    [k \in {"10 bit", "12 bit"} |->
        IF k = "10 bit" THEN ACES_RGB_PROXY_10_CONSTANTS
        ELSE ACES_RGB_PROXY_12_CONSTANTS]

\* The object dict.get() returns for a missing key; it has none of the
\* attributes of a constants structure.
None == [type |-> "NoneType"]

GetWithDefault(dict, key) ==
    IF key \in DOMAIN dict THEN dict[key] ELSE dict["10 bit"]

\* dict.get(key)
Get(dict, key) == IF key \in DOMAIN dict THEN dict[key] ELSE None

HasAttr(obj, name) == name \in DOMAIN obj

\* Outcome of a call: a returned float or a raised exception.
Return(v) == [kind |-> "return", val |-> v, exc |-> "none"]

Raise(e) == [kind |-> "raise", val |-> {}, exc |-> e]

(***************************************************************************)
(* ACES RGB Log.                                                           *)
(***************************************************************************)
LogDenormRemapNotHalved(value) ==
    Add(ACES_RGB_LOG_CONSTANTS.denorm_fake0, value)

\* value = denorm_fake0 + (value / 2.)
LogDenormRemap(value) ==
    Add(ACES_RGB_LOG_CONSTANTS.denorm_fake0, Div(value, Rat(2, 1)))

\* the value the logarithm is taken of
LogOperand(value) ==
    IF Less(value, ACES_RGB_LOG_CONSTANTS.denorm_trans)
    THEN LogDenormRemap(value)
    ELSE value

LogCodeWithoutUnity(value) ==
    Mul(Log2(value), ACES_RGB_LOG_CONSTANTS.log_xperstop)

\* value = log2(value) * log_xperstop + log_unity
LogCode(value) ==
    Add(Mul(Log2(value), ACES_RGB_LOG_CONSTANTS.log_xperstop),
        ACES_RGB_LOG_CONSTANTS.log_unity)

LogQuantizeWithoutCeiling(value) == Add(Floor(value), Rat(1, 2))

\* value = min(math.floor(value) + 0.5, 65535)
LogQuantize(value) == Min(Add(Floor(value), Rat(1, 2)), Rat(65535, 1))

LogTransferClampBeforeQuantize(value, is_16_bit_integer) ==
    LET code == IF Less(value, Rat(0, 1)) THEN Rat(0, 1)
                ELSE LogCode(LogOperand(value))
    IN  IF is_16_bit_integer THEN Return(LogQuantize(code))
        ELSE Return(code)

aces_rgb_log_transfer_function(value, is_16_bit_integer) ==
    IF Less(value, Rat(0, 1)) THEN Return(Rat(0, 1))
    ELSE LET code == LogCode(LogOperand(value))
         IN  IF is_16_bit_integer THEN Return(LogQuantize(code))
             ELSE Return(code)

\* value = math.pow(2., (value - log_unity) / log_xperstop)
LogInversePow(value) ==
    Pow2(Div(Sub(value, ACES_RGB_LOG_CONSTANTS.log_unity),
             ACES_RGB_LOG_CONSTANTS.log_xperstop))

LogDenormUndoNotDoubled(value) ==
    Sub(value, ACES_RGB_LOG_CONSTANTS.denorm_fake0)

\* value = (value - denorm_fake0) * 2.
LogDenormUndo(value) ==
    Mul(Sub(value, ACES_RGB_LOG_CONSTANTS.denorm_fake0), Rat(2, 1))

aces_rgb_log_inverse_transfer_function(value) ==
    LET v == LogInversePow(value)
    IN  IF Less(v, ACES_RGB_LOG_CONSTANTS.denorm_trans)
        THEN Return(LogDenormUndo(v))
        ELSE Return(v)

(***************************************************************************)
(* ACES RGB Proxy.                                                         *)
(***************************************************************************)
ProxyCodeOffsetAdded(value, constants) ==
    Add(Mul(Add(Log2(value), constants.mid_log_offset), constants.steps_per_stop),
        constants.mid_CV_offset)

\* (log2(value) - mid_log_offset) * steps_per_stop + mid_CV_offset
ProxyCode(value, constants) ==
    Add(Mul(Sub(Log2(value), constants.mid_log_offset), constants.steps_per_stop),
        constants.mid_CV_offset)

ProxyTransferFloorPlusHalf(value, bit_depth) ==
    LET constants == Get(ACES_RGB_PROXY_CONSTANTS, bit_depth)
    IN  IF ~HasAttr(constants, "CV_min") THEN Raise("AttributeError")
        ELSE IF Greater(value, Rat(0, 1))
        THEN Return(Add(Max(constants.CV_min,
                            Min(constants.CV_max, ProxyCode(value, constants))),
                        Rat(1, 2)))
        ELSE Return(Add(constants.CV_min, Rat(1, 2)))

aces_rgb_proxy_transfer_function(value, bit_depth) ==
    LET constants == Get(ACES_RGB_PROXY_CONSTANTS, bit_depth)
    IN  IF Greater(value, Rat(0, 1))
        THEN IF ~HasAttr(constants, "CV_min") THEN Raise("AttributeError")
             ELSE Return(Add(Max(constants.CV_min,
                                 Min(constants.CV_max, ProxyCode(value, constants))),
                             Rat(1, 2)))
        ELSE IF ~HasAttr(constants, "CV_min") THEN Raise("AttributeError")
             ELSE Return(constants.CV_min)

ProxyExponentOffsetSubtracted(value, constants) ==
    Sub(Div(Sub(value, constants.mid_CV_offset), constants.steps_per_stop),
        constants.mid_log_offset)

\* ((value - mid_CV_offset) / steps_per_stop) + mid_log_offset
ProxyExponent(value, constants) ==
    Add(Div(Sub(value, constants.mid_CV_offset), constants.steps_per_stop),
        constants.mid_log_offset)

aces_rgb_proxy_inverse_transfer_function(value, bit_depth) ==
    LET constants == Get(ACES_RGB_PROXY_CONSTANTS, bit_depth)
    IN  IF ~HasAttr(constants, "mid_CV_offset") THEN Raise("AttributeError")
        ELSE Return(Pow2(ProxyExponent(value, constants)))

ACES_RGB_PROXY_10_TRANSFER_FUNCTION(x) ==
    aces_rgb_proxy_transfer_function(x, "10 bit")

ACES_RGB_PROXY_10_INVERSE_TRANSFER_FUNCTION(x) ==
    aces_rgb_proxy_inverse_transfer_function(x, "10 bit")

ACES_RGB_PROXY_12_TRANSFER_FUNCTION(x) ==
    aces_rgb_proxy_transfer_function(x, "12 bit")

ACES_RGB_PROXY_12_INVERSE_TRANSFER_FUNCTION(x) ==
    aces_rgb_proxy_inverse_transfer_function(x, "12 bit")

(***************************************************************************)
(* Arguments.  The floats the calls are made with: powers of two on the    *)
(* exponent grid, negative powers, the values of the denormal region whose *)
(* remapped value is on the grid (zero among them), and the code values    *)
(* of the grid.                                                            *)
(***************************************************************************)
Monos == {Mono(e) : e \in Exps}

Negatives == {Neg(Mono(k * ExpDen)) : k \in (-MinStop)..MaxStop}

\* 2^(q/ExpDen + 1) - 2^-15 for -16 <= q/ExpDen < -15
Denormals ==
    {Sub(Mono(q + ExpDen), Mono(-15 * ExpDen)) :
        q \in (-16 * ExpDen)..(-15 * ExpDen - 1)}

\* 2048 * e/ExpDen + 32768
LogCodes == {Rat(2048 * e + 32768 * ExpDen, ExpDen) : e \in Exps}

\* (e/ExpDen + 5/2) * 50 + 425 and (e/ExpDen + 5/2) * 200 + 1700
ProxyCodes ==
    {Rat((2 * e + 5 * ExpDen) * 50 + 850 * ExpDen, 2 * ExpDen) : e \in Exps}
    \cup {Rat((2 * e + 5 * ExpDen) * 200 + 3400 * ExpDen, 2 * ExpDen) : e \in Exps}

Values == Monos \cup Negatives \cup Denormals \cup LogCodes \cup ProxyCodes

BitDepths == {"10 bit", "12 bit", "8 bit"}

\* The calls whose logarithm or power is exact.
LogTransferExact(v) ==
    IF Less(v, Rat(0, 1)) THEN TRUE ELSE Log2Defined(LogOperand(v))

\* A code value whose exponent can be on the grid is a rational whose
\* denominator divides ExpDen.
CodeOnGrid(v) == IsRat(v) /\ ExpDen % RatDen(v) = 0

LogInverseExact(v) ==
    IF ~CodeOnGrid(v) THEN FALSE
    ELSE Pow2Defined(Div(Sub(v, ACES_RGB_LOG_CONSTANTS.log_unity),
                         ACES_RGB_LOG_CONSTANTS.log_xperstop))

ProxyTransferExact(v, b) ==
    IF b \notin DOMAIN ACES_RGB_PROXY_CONSTANTS THEN TRUE
    ELSE IF ~Greater(v, Rat(0, 1)) THEN TRUE
    ELSE Log2Defined(v)

ProxyInverseExact(v, b) ==
    IF b \notin DOMAIN ACES_RGB_PROXY_CONSTANTS THEN TRUE
    ELSE IF ~CodeOnGrid(v) THEN FALSE
    ELSE Pow2Defined(ProxyExponent(v, ACES_RGB_PROXY_CONSTANTS[b]))

(***************************************************************************)
(* State: the latest call (function, arguments, outcome) and the call      *)
(* before it.  A caller makes one call, and may follow it by the inverse   *)
(* applied to the result, or by a second log encoding.                     *)
(***************************************************************************)
VARIABLES pc, fn, value, bit_depth, is_16_bit_integer, result, first

vars == <<pc, fn, value, bit_depth, is_16_bit_integer, result, first>>

NoCall ==
    [fn |-> "none", value |-> {}, bit_depth |-> "none",
     is_16_bit_integer |-> FALSE, result |-> Raise("none")]

\* the latest call, as the call before the next one
Latest ==
    [fn |-> fn, value |-> value, bit_depth |-> bit_depth,
     is_16_bit_integer |-> is_16_bit_integer, result |-> result]

Init ==
    /\ pc = "idle"
    /\ fn = "none"
    /\ value = {}
    /\ bit_depth = "none"
    /\ is_16_bit_integer = FALSE
    /\ result = Raise("none")
    /\ first = NoCall

Call(f, v, b, i, r) ==
    /\ fn' = f
    /\ value' = v
    /\ bit_depth' = b
    /\ is_16_bit_integer' = i
    /\ result' = r

LogTransfer ==
    /\ pc = "idle"
    /\ \E v \in Values, i \in BOOLEAN :
          /\ LogTransferExact(v)
          /\ Call("log_transfer", v, "none", i,
                  aces_rgb_log_transfer_function(v, i))
    /\ pc' = "called"
    /\ UNCHANGED first

LogInverse ==
    /\ pc = "idle"
    /\ \E v \in Values :
          /\ LogInverseExact(v)
          /\ Call("log_inverse", v, "none", FALSE,
                  aces_rgb_log_inverse_transfer_function(v))
    /\ pc' = "called"
    /\ UNCHANGED first

ProxyTransfer ==
    /\ pc = "idle"
    /\ \E v \in Values, b \in BitDepths :
          /\ ProxyTransferExact(v, b)
          /\ Call("proxy_transfer", v, b, FALSE,
                  aces_rgb_proxy_transfer_function(v, b))
    /\ pc' = "called"
    /\ UNCHANGED first

ProxyInverse ==
    /\ pc = "idle"
    /\ \E v \in Values, b \in BitDepths :
          /\ ProxyInverseExact(v, b)
          /\ Call("proxy_inverse", v, b, FALSE,
                  aces_rgb_proxy_inverse_transfer_function(v, b))
    /\ pc' = "called"
    /\ UNCHANGED first

Proxy10Transfer ==
    /\ pc = "idle"
    /\ \E v \in Values :
          /\ ProxyTransferExact(v, "10 bit")
          /\ Call("proxy_10_transfer", v, "10 bit", FALSE,
                  ACES_RGB_PROXY_10_TRANSFER_FUNCTION(v))
    /\ pc' = "called"
    /\ UNCHANGED first

Proxy12Transfer ==
    /\ pc = "idle"
    /\ \E v \in Values :
          /\ ProxyTransferExact(v, "12 bit")
          /\ Call("proxy_12_transfer", v, "12 bit", FALSE,
                  ACES_RGB_PROXY_12_TRANSFER_FUNCTION(v))
    /\ pc' = "called"
    /\ UNCHANGED first

Proxy10Inverse ==
    /\ pc = "idle"
    /\ \E v \in Values :
          /\ ProxyInverseExact(v, "10 bit")
          /\ Call("proxy_10_inverse", v, "10 bit", FALSE,
                  ACES_RGB_PROXY_10_INVERSE_TRANSFER_FUNCTION(v))
    /\ pc' = "called"
    /\ UNCHANGED first

Proxy12Inverse ==
    /\ pc = "idle"
    /\ \E v \in Values :
          /\ ProxyInverseExact(v, "12 bit")
          /\ Call("proxy_12_inverse", v, "12 bit", FALSE,
                  ACES_RGB_PROXY_12_INVERSE_TRANSFER_FUNCTION(v))
    /\ pc' = "called"
    /\ UNCHANGED first

\* log inverse applied to the result of a log encoding
LogRoundTrip ==
    /\ pc = "called"
    /\ fn = "log_transfer"
    /\ result.kind = "return"
    /\ LogInverseExact(result.val)
    /\ Call("log_inverse", result.val, "none", FALSE,
            aces_rgb_log_inverse_transfer_function(result.val))
    /\ first' = Latest
    /\ pc' = "chained"

\* proxy inverse applied to the result of a proxy encoding less the 0.5
\* bin-centre offset
ProxyRoundTrip ==
    /\ pc = "called"
    /\ fn \in {"proxy_transfer", "proxy_10_transfer", "proxy_12_transfer"}
    /\ result.kind = "return"
    /\ LET code == Sub(result.val, Rat(1, 2))
       IN  /\ ProxyInverseExact(code, bit_depth)
           /\ Call("proxy_inverse", code, bit_depth, FALSE,
                   aces_rgb_proxy_inverse_transfer_function(code, bit_depth))
    /\ first' = Latest
    /\ pc' = "chained"

\* a second log encoding (not quantized), of another value
LogTransferAgain ==
    /\ pc = "called"
    /\ fn = "log_transfer"
    /\ ~is_16_bit_integer
    /\ \E v \in Values :
          /\ LogTransferExact(v)
          /\ Call("log_transfer", v, "none", is_16_bit_integer,
                  aces_rgb_log_transfer_function(v, is_16_bit_integer))
    /\ first' = Latest
    /\ pc' = "chained"

Next ==
    \/ LogTransfer
    \/ LogInverse
    \/ ProxyTransfer
    \/ ProxyInverse
    \/ Proxy10Transfer
    \/ Proxy12Transfer
    \/ Proxy10Inverse
    \/ Proxy12Inverse
    \/ LogRoundTrip
    \/ ProxyRoundTrip
    \/ LogTransferAgain

Spec == Init /\ [][Next]_vars

(***************************************************************************)
(* Properties.                                                             *)
(***************************************************************************)
ProxyTransferFns == {"proxy_transfer", "proxy_10_transfer", "proxy_12_transfer"}

ProxyInverseFns == {"proxy_inverse", "proxy_10_inverse", "proxy_12_inverse"}

ProxyFns == ProxyTransferFns \cup ProxyInverseFns

KnownBitDepths == {"10 bit", "12 bit"}

C4_ProxyFloor ==
    (/\ fn \in ProxyTransferFns
     /\ bit_depth \in KnownBitDepths
     /\ ~Greater(value, Rat(0, 1)))
        => result = Return(Rat(0, 1))

C4_Witness ==
    /\ fn = "proxy_12_transfer"
    /\ Less(value, Rat(0, 1))
    /\ result = Return(ACES_RGB_PROXY_12_CONSTANTS.CV_min)

\* C5: for every value < 0 the log forward function returns exactly 0,
\* whether or not integer-code quantization is requested.
C5_LogNegativeClamp ==
    (fn = "log_transfer" /\ Less(value, Rat(0, 1)))
        => result = Return(Rat(0, 1))

C5_Witness ==
    /\ fn = "log_transfer"
    /\ is_16_bit_integer
    /\ Less(value, Rat(0, 1))
    /\ result = Return(Rat(0, 1))

\* The argument of a log encoding that is not negative is 2^(e/ExpDen)
\* with e/ExpDen >= -15, or 2^(q/ExpDen + 1) - 2^-15 with
\* -16 <= q/ExpDen < -15; OperandExp is the exponent the logarithm is
\* taken of, e or q.
IsNormal(v) == \E e \in Exps : e >= -15 * ExpDen /\ v = Mono(e)

IsDenormal(v) ==
    \E q \in (-16 * ExpDen)..(-15 * ExpDen - 1) :
        v = Sub(Mono(q + ExpDen), Mono(-15 * ExpDen))

OperandExp(v) ==
    IF IsNormal(v) THEN CHOOSE e \in Exps : v = Mono(e)
    ELSE CHOOSE q \in (-16 * ExpDen)..(-15 * ExpDen - 1) :
            v = Sub(Mono(q + ExpDen), Mono(-15 * ExpDen))

\* floor(2048 * e / ExpDen + 32768)
FloorOfCode(e) == (2048 * e + 32768 * ExpDen) \div ExpDen

\* C2: in non-integer mode the log inverse undoes the log forward function
\* on every value >= 0, in the denormal region 0 <= x < 2^-15 and in the
\* normal region x >= 2^-15: log_decode(log_encode(x)) = x.
C2_LogRoundTrip ==
    (/\ pc = "chained"
     /\ fn = "log_inverse"
     /\ first.fn = "log_transfer"
     /\ ~first.is_16_bit_integer
     /\ ~Less(first.value, Rat(0, 1)))
        => result = Return(first.value)

C2_Witness ==
    /\ pc = "chained"
    /\ fn = "log_inverse"
    /\ first.fn = "log_transfer"
    /\ ~first.is_16_bit_integer
    /\ Greater(first.value, Rat(0, 1))
    /\ Less(first.value, ACES_RGB_LOG_CONSTANTS.denorm_trans)
    /\ result = Return(first.value)

\* Constants of the proxy encodings, as integers.
StepsPerStop(b) == IF b = "10 bit" THEN 50 ELSE 200

MidCVOffset(b) == IF b = "10 bit" THEN 425 ELSE 1700

CVMax(b) == IF b = "10 bit" THEN 1023 ELSE 4095

\* (e/ExpDen + 5/2) * steps_per_stop + mid_CV_offset, over 2 * ExpDen
RawNum(e, b) == (2 * e + 5 * ExpDen) * StepsPerStop(b) + 2 * ExpDen * MidCVOffset(b)

ClampedPlusHalf(e, b) ==
    IF RawNum(e, b) < 0 THEN Rat(1, 2)
    ELSE IF RawNum(e, b) > CVMax(b) * 2 * ExpDen THEN Rat(2 * CVMax(b) + 1, 2)
    ELSE Rat(RawNum(e, b) + ExpDen, 2 * ExpDen)

\* C3: for every value > 0 and each of the two bit depths the proxy forward
\* function returns max(CV_min, min(CV_max, (log2(value) + 2.5) *
\* steps_per_stop + mid_CV_offset)) + 0.5, which lies in
\* [CV_min, CV_max + 0.5]; proxy_encode(1.0, "10 bit") = 550.5.
C3_ProxyForward ==
    (/\ fn \in ProxyTransferFns
     /\ bit_depth \in KnownBitDepths
     /\ Greater(value, Rat(0, 1)))
        => /\ result = Return(ClampedPlusHalf(CHOOSE e \in Exps : value = Mono(e),
                                              bit_depth))
           /\ ~Less(result.val, Rat(0, 1))
           /\ ~Greater(result.val, Rat(2 * CVMax(bit_depth) + 1, 2))
           /\ (value = Rat(1, 1) /\ bit_depth = "10 bit")
                 => result.val = Rat(1101, 2)

C3_Witness ==
    /\ fn = "proxy_transfer"
    /\ bit_depth = "10 bit"
    /\ value = Mono(MaxStop * ExpDen)
    /\ result = Return(Rat(2047, 2))

\* C6: with integer-code quantization the log forward function returns
\* min(floor(code) + 0.5, 65535) for every value >= 0, code being the
\* unquantized encoding; the result never exceeds 65535, is exactly 65535
\* for values >= 2^16, and is not clamped at the low end.
C6_LogQuantization ==
    (/\ fn = "log_transfer"
     /\ is_16_bit_integer
     /\ ~Less(value, Rat(0, 1)))
        => LET fl == FloorOfCode(OperandExp(value))
           IN  /\ result = Return(IF 2 * fl + 1 > 2 * 65535 THEN Rat(65535, 1)
                                  ELSE Rat(2 * fl + 1, 2))
               /\ ~Greater(result.val, Rat(65535, 1))
               /\ ~Less(value, Mono(16 * ExpDen)) => result.val = Rat(65535, 1)

C6_Witness ==
    /\ fn = "log_transfer"
    /\ is_16_bit_integer
    /\ Greater(value, Mono(16 * ExpDen))
    /\ result = Return(Rat(65535, 1))

\* The exponent ((c - mid_CV_offset) / steps_per_stop - 5/2) * ExpDen of a
\* code value c.
ProxyExpOfCode(c, b) ==
    ((2 * (RatNum(c) - MidCVOffset(b) * RatDen(c))
        - 5 * StepsPerStop(b) * RatDen(c)) * ExpDen)
    \div (2 * StepsPerStop(b) * RatDen(c))

\* C7: for each of the two bit depths and every value x > 0 whose unclamped
\* code lies in [CV_min, CV_max], the proxy inverse of the forward result
\* less 0.5 is x; and the inverse does not clamp: for every code value c,
\* in or out of [CV_min, CV_max], it returns
\* 2^((c - mid_CV_offset) / steps_per_stop - 2.5).
C7_ProxyRoundTrip ==
    /\ (/\ pc = "chained"
        /\ fn = "proxy_inverse"
        /\ first.fn \in ProxyTransferFns
        /\ first.bit_depth \in KnownBitDepths
        /\ Greater(first.value, Rat(0, 1))
        /\ LET e == CHOOSE e \in Exps : first.value = Mono(e)
           IN  /\ RawNum(e, first.bit_depth) >= 0
               /\ RawNum(e, first.bit_depth) <= CVMax(first.bit_depth) * 2 * ExpDen)
          => result = Return(first.value)
    /\ (fn \in ProxyInverseFns /\ bit_depth \in KnownBitDepths)
          => result = Return(Mono(ProxyExpOfCode(value, bit_depth)))

C7_Witness ==
    /\ pc = "chained"
    /\ fn = "proxy_inverse"
    /\ first.fn = "proxy_transfer"
    /\ first.bit_depth = "10 bit"
    /\ first.value = Rat(1, 1)
    /\ value = Rat(550, 1)
    /\ result = Return(Rat(1, 1))

\* C8: the log forward function has no jump at x = denorm_trans = 2^-15:
\* the denormal remap 2^-16 + x/2 of 2^-15 is 2^-15, so the remap branch
\* taken at 2^-15 gives the code the direct branch gives there, 2048; and
\* below 2^-15 the code is 2048 * log2(2^-16 + x/2) + 32768 < 2048.
C8_DenormContinuity ==
    (fn = "log_transfer" /\ ~is_16_bit_integer)
        => /\ LogDenormRemap(ACES_RGB_LOG_CONSTANTS.denorm_trans)
                = ACES_RGB_LOG_CONSTANTS.denorm_trans
           /\ value = ACES_RGB_LOG_CONSTANTS.denorm_trans
                 => /\ result = Return(Rat(2048, 1))
                    /\ result.val = LogCode(LogDenormRemap(value))
           /\ IsDenormal(value)
                 => /\ result.val = LogCode(LogDenormRemap(value))
                    /\ result.val = Rat(2048 * OperandExp(value) + 32768 * ExpDen, ExpDen)
                    /\ Less(result.val, Rat(2048, 1))

C8_Witness ==
    /\ fn = "log_transfer"
    /\ ~is_16_bit_integer
    /\ value = Mono(-15 * ExpDen)
    /\ result = Return(Rat(2048, 1))

\* The exponent ((c - 32768) / 2048) * ExpDen of a code value c.
LogExpOfCode(c) ==
    ((RatNum(c) - 32768 * RatDen(c)) * ExpDen) \div (2048 * RatDen(c))

\* C9: in non-integer mode the log forward function computes
\* log2(value) * 2048 + 32768 for every value >= 2^-15, and the log inverse
\* computes 2^((code - 32768) / 2048), which is its result wherever that
\* power is not below 2^-15; log_encode(1.0) = 32768.0 and
\* log_decode(32768.0) = 1.0.
C9_LogFormulas ==
    /\ (fn = "log_transfer" /\ ~is_16_bit_integer /\ IsNormal(value))
          => /\ result = Return(Rat(2048 * OperandExp(value) + 32768 * ExpDen, ExpDen))
             /\ value = Rat(1, 1) => result.val = Rat(32768, 1)
    /\ fn = "log_inverse"
          => /\ LogInversePow(value) = Mono(LogExpOfCode(value))
             /\ LogExpOfCode(value) >= -15 * ExpDen
                   => result = Return(Mono(LogExpOfCode(value)))
             /\ value = Rat(32768, 1) => result.val = Rat(1, 1)

C9_Witness ==
    /\ pc = "called"
    /\ fn = "log_inverse"
    /\ value = Rat(32768, 1)
    /\ result = Return(Rat(1, 1))

\* C10: in non-integer mode the log forward function is monotone
\* non-decreasing over all its arguments: every x < 0 and x = 0 map to 0,
\* x <= y implies log_encode(x) <= log_encode(y), also across the denormal
\* boundary 2^-15, and no result is negative.
C10_LogMonotone ==
    (fn = "log_transfer" /\ ~is_16_bit_integer)
        => /\ ~Greater(value, Rat(0, 1)) => result = Return(Rat(0, 1))
           /\ ~Less(result.val, Rat(0, 1))
           /\ (/\ pc = "chained"
               /\ first.fn = "log_transfer"
               /\ ~first.is_16_bit_integer
               /\ ~Greater(first.value, value))
                 => ~Greater(first.result.val, result.val)

C10_Witness ==
    /\ pc = "chained"
    /\ fn = "log_transfer"
    /\ first.fn = "log_transfer"
    /\ Greater(first.value, Rat(0, 1))
    /\ Less(first.value, ACES_RGB_LOG_CONSTANTS.denorm_trans)
    /\ Greater(value, ACES_RGB_LOG_CONSTANTS.denorm_trans)
    /\ Less(first.result.val, result.val)

====
